---- MODULE Spec2Model ----
(***************************************************************************)
(* Model of scraper_products.py: the extraction functions as operators,   *)
(* and main() as a state machine.                                          *)
(*                                                                         *)
(* A Python str is a sequence of tokens (each token an atomic piece of     *)
(* text, " " being a whitespace token); a Python dict is the sequence of   *)
(* its [k, v] items in insertion order; an element's content is the        *)
(* sequence of its text nodes.                                             *)
(***************************************************************************)
EXTENDS Integers, Sequences, FiniteSets, TLC

\* an optional value (a Tag or None, a str or None): None, or Some(x) holding x
None == <<>>

Some(x) == <<x>>

Val(opt) == opt[1]

\* markup: the str "" is NoMarkup, a page is Some(what the parser finds in it)
NoMarkup == <<>>

SeqsUpTo(S, n) == UNION {[1..k -> S] : k \in 0..n}

\* ---------------------------------------------------------------- str ----

IsSpace(tok) == tok = " "

RECURSIVE lstrip(_)
lstrip(s) == IF s # <<>> /\ IsSpace(Head(s)) THEN lstrip(Tail(s)) ELSE s

RECURSIVE rstrip(_)
rstrip(s) ==
    IF s # <<>> /\ IsSpace(s[Len(s)]) THEN rstrip(SubSeq(s, 1, Len(s) - 1)) ELSE s

\* str.strip()
strip(s) == rstrip(lstrip(s))

\* sep.join(items)
RECURSIVE join(_, _)
join(sep, items) ==
    IF items = <<>> THEN <<>>
    ELSE IF Len(items) = 1 THEN items[1]
    ELSE items[1] \o sep \o join(sep, Tail(items))

\* Tag.text: the text nodes of the element, concatenated
text(nodes) == join(<<>>, nodes)

\* Tag.get_text(sep, strip=True): every text node stripped, the empty ones
\* dropped, the rest joined by sep
get_text(nodes, sep) ==
    join(sep, SelectSeq([i \in DOMAIN nodes |-> strip(nodes[i])], LAMBDA s : s # <<>>))

\* list[1:]
slice_from_1(list) == IF list = <<>> THEN <<>> ELSE Tail(list)

\* mutant of slice_to: the cut is one too far, list[:n + 1]
slice_to_one_more(list, n) == SubSeq(list, 1, IF n + 1 < Len(list) THEN n + 1 ELSE Len(list))

\* list[:n], n >= 0
slice_to(list, n) == SubSeq(list, 1, IF n < Len(list) THEN n ELSE Len(list))

\* ---------------------------------------------------------------- dict ---

KeySet(d) == {d[i].k : i \in DOMAIN d}

Has(d, key) == key \in KeySet(d)

Get(d, key) == d[CHOOSE i \in DOMAIN d : d[i].k = key].v

\* d[key] = value: an existing key keeps its position
DictSet(d, key, value) ==
    IF Has(d, key)
    THEN [i \in DOMAIN d |-> IF d[i].k = key THEN [k |-> key, v |-> value] ELSE d[i]]
    ELSE Append(d, [k |-> key, v |-> value])

\* {**d, **e}
RECURSIVE Update(_, _)
Update(d, e) ==
    IF e = <<>> THEN d ELSE Update(DictSet(d, Head(e).k, Head(e).v), Tail(e))

\* ------------------------------------------------------------- config ----

BASE_URL == <<"https://www.gsmarena.com/">>

LISTING_URL == <<"https://www.gsmarena.com/results.php3?nYearMin=2025">>

\* ---------------------------------------------------------- fetch_html ----

\* what requests.get does: raise (a timeout, a transport error, or a status
\* raise_for_status rejects), or answer with a body, which may be ""
Responses(pages) ==
    {[raises |-> TRUE, text |-> NoMarkup]} \cup
    {[raises |-> FALSE, text |-> t] : t \in {NoMarkup} \cup {Some(page) : page \in pages}}

fetch_html(response) == IF response.raises THEN NoMarkup ELSE response.text

\* ---------------------------------------------------- get_product_urls ----

\* the anchors of the listing in document order, each its href or None
RECURSIVE product_hrefs(_, _)
product_hrefs(urls, anchors) ==
    IF anchors = <<>> THEN urls
    ELSE LET href == IF Head(anchors) # None THEN Val(Head(anchors)) ELSE <<>>
         IN  product_hrefs(IF href # <<>> THEN Append(urls, BASE_URL \o href) ELSE urls,
                           Tail(anchors))

get_product_urls(listing_html) == product_hrefs(<<>>, Val(listing_html))

\* ------------------------------------------------- extract_key_specs ----

\* the whitelist: record key and data-spec attribute, in the literal's order
KEY_SPECS ==
    << <<"Released", "released-hl">>, <<"Body", "body-hl">>, <<"OS", "os-hl">>,
       <<"Storage", "storage-hl">>, <<"Display Size", "displaysize-hl">>,
       <<"Display Resolution", "displayres-hl">>,
       <<"Camera (MP)", "camerapixels-hl">>, <<"Video", "videopixels-hl">>,
       <<"RAM (GB)", "ramsize-hl">>, <<"Chipset", "chipset-hl">>,
       <<"Battery (mAh)", "batsize-hl">>, <<"Charging", "battype-hl">> >>

\* specs_ul maps the data-spec attributes present in the container to the
\* text nodes of their element
get_data_spec(specs_ul, attr) ==
    IF attr \in DOMAIN specs_ul THEN strip(text(specs_ul[attr])) ELSE <<>>

extract_key_specs(soup) ==
    IF soup.spotlight = None
    THEN <<>>
    ELSE [i \in DOMAIN KEY_SPECS |->
            [k |-> <<KEY_SPECS[i][1]>>,
             v |-> get_data_spec(Val(soup.spotlight), KEY_SPECS[i][2])]]

\* ------------------------------------------------ extract_full_specs ----

\* mutant of full_specs_row: a header row opens its section only when there
\* is none of that name yet, full_specs.setdefault(category, {})
full_specs_row_setdefault(st, row) ==
    LET category == IF row.th # None
                    THEN Some(get_text(Val(row.th), <<>>))
                    ELSE st.category
        opened   == IF row.th # None /\ ~Has(st.full_specs, Val(category))
                    THEN DictSet(st.full_specs, Val(category), <<>>)
                    ELSE st.full_specs
    IN  IF Len(row.tds) = 2 /\ category # None /\ Val(category) # <<>>
        THEN [full_specs |->
                 DictSet(opened, Val(category),
                         DictSet(Get(opened, Val(category)),
                                 get_text(row.tds[1], <<>>),
                                 get_text(row.tds[2], <<" ">>))),
              category |-> category]
        ELSE [full_specs |-> opened, category |-> category]

\* one <tr>: st is [full_specs, category]
full_specs_row(st, row) ==
    LET category == IF row.th # None
                    THEN Some(get_text(Val(row.th), <<>>))
                    ELSE st.category
        opened   == IF row.th # None
                    THEN DictSet(st.full_specs, Val(category), <<>>)
                    ELSE st.full_specs
    IN  IF Len(row.tds) = 2 /\ category # None /\ Val(category) # <<>>
        THEN [full_specs |->
                 DictSet(opened, Val(category),
                         DictSet(Get(opened, Val(category)),
                                 get_text(row.tds[1], <<>>),
                                 get_text(row.tds[2], <<" ">>))),
              category |-> category]
        ELSE [full_specs |-> opened, category |-> category]

RECURSIVE full_specs_rows(_, _)
full_specs_rows(st, rows) ==
    IF rows = <<>> THEN st
    ELSE full_specs_rows(full_specs_row(st, Head(rows)), Tail(rows))

\* one <table>: category starts at None
full_specs_table(full_specs, table) ==
    full_specs_rows([full_specs |-> full_specs, category |-> None], table).full_specs

RECURSIVE full_specs_tables(_, _)
full_specs_tables(full_specs, tables) ==
    IF tables = <<>> THEN full_specs
    ELSE full_specs_tables(full_specs_table(full_specs, Head(tables)), Tail(tables))

extract_full_specs(soup) ==
    IF soup.specs_list = None THEN <<>> ELSE full_specs_tables(<<>>, Val(soup.specs_list))

\* ------------------------------------ combine_full_specs_sectionwise ----

\* [f"{k}: {v}" for k, v in items.items()]
spec_lines(items) == [i \in DOMAIN items |-> items[i].k \o <<": ">> \o items[i].v]

\* mutant of combine_full_specs_sectionwise: sections without pairs are left out
combine_skipping_empty(specs_dict) ==
    LET kept == SelectSeq(specs_dict, LAMBDA item : item.v # <<>>)
    IN  [i \in DOMAIN kept |->
            [k |-> kept[i].k, v |-> join(<<" | ">>, spec_lines(kept[i].v))]]

combine_full_specs_sectionwise(specs_dict) ==
    Update(<<>>, [i \in DOMAIN specs_dict |->
                    [k |-> specs_dict[i].k,
                     v |-> join(<<" | ">>, spec_lines(specs_dict[i].v))]])

\* ------------------------------------------------ get_price_page_url ----

get_price_page_url(soup) ==
    IF soup.price_link # None THEN BASE_URL \o Val(soup.price_link) ELSE <<>>

\* ------------------------------------------------ extract_price_info ----

price_variant(variant_headers, idx) ==
    IF idx < Len(variant_headers)
    THEN variant_headers[idx + 1]
    ELSE <<"Variant ", ToString(idx + 1)>>

price_platform_name(row) ==
    IF row.img # None
    THEN strip(IF Val(row.img).alt # None THEN Val(Val(row.img).alt) ELSE <<>>)
    ELSE <<"Unknown Platform">>

\* the cells of one row, from the 0-based index idx on; acc is [platforms, prices]
RECURSIVE price_cells(_, _, _, _, _, _)
price_cells(acc, location_text, variant_headers, platform_name, cells, idx) ==
    IF idx >= Len(cells) THEN acc
    ELSE price_cells(
           [platforms |-> Append(acc.platforms,
                                 location_text \o <<" - ">>
                                 \o price_variant(variant_headers, idx)
                                 \o <<" - ">> \o platform_name),
            prices |-> Append(acc.prices, get_text(cells[idx + 1], <<>>))],
           location_text, variant_headers, platform_name, cells, idx + 1)

\* mutant of price_rows: the rows are read last to first
RECURSIVE price_rows_reversed(_, _, _, _)
price_rows_reversed(acc, location_text, variant_headers, rows) ==
    IF rows = <<>> THEN acc
    ELSE price_rows_reversed(
           price_cells(acc, location_text, variant_headers,
                       price_platform_name(rows[Len(rows)]), rows[Len(rows)].cells, 0),
           location_text, variant_headers, SubSeq(rows, 1, Len(rows) - 1))

RECURSIVE price_rows(_, _, _, _)
price_rows(acc, location_text, variant_headers, rows) ==
    IF rows = <<>> THEN acc
    ELSE price_rows(
           price_cells(acc, location_text, variant_headers,
                       price_platform_name(Head(rows)), Head(rows).cells, 0),
           location_text, variant_headers, Tail(rows))

price_table(acc, table) ==
    LET location_text == IF table.caption # None
                         THEN get_text(Val(table.caption), <<>>)
                         ELSE <<"Unknown Location">>
    IN  IF table.thead = None THEN acc
        ELSE IF table.tbody = None THEN acc
        ELSE price_rows(acc, location_text,
                        slice_from_1([i \in DOMAIN Val(table.thead) |->
                                         get_text(Val(table.thead)[i], <<>>)]),
                        Val(table.tbody))

RECURSIVE price_tables(_, _)
price_tables(acc, tables) ==
    IF tables = <<>> THEN acc
    ELSE price_tables(price_table(acc, Head(tables)), Tail(tables))

\* BeautifulSoup(markup).select("table.pricing"): the pricing tables of the
\* markup in document order, none for ""
select_pricing(markup) == IF markup = NoMarkup THEN <<>> ELSE Val(markup)

\* the lists platforms and prices when the loop over the tables ends
price_lists(price_html) ==
    price_tables([platforms |-> <<>>, prices |-> <<>>], select_pricing(price_html))

\* mutant of extract_price_info: "" is answered with {} rather than parsed
extract_price_info_unless_empty(price_html) ==
    IF price_html = NoMarkup THEN <<>>
    ELSE << [k |-> <<"Price Platforms">>,
             v |-> join(<<"\n">>, price_lists(price_html).platforms)],
            [k |-> <<"Price Values">>,
             v |-> join(<<"\n">>, price_lists(price_html).prices)] >>

extract_price_info(price_html) ==
    << [k |-> <<"Price Platforms">>, v |-> join(<<"\n">>, price_lists(price_html).platforms)],
       [k |-> <<"Price Values">>, v |-> join(<<"\n">>, price_lists(price_html).prices)] >>

\* ============================================================ inputs ====

\* an element holding one text node of one token
T(tok) == << <<tok>> >>

\* ---- product pages: the spotlight container ----

ATTRS == {KEY_SPECS[i][2] : i \in DOMAIN KEY_SPECS}

\* the text nodes of the element carrying data-spec = attr, when present
SpotlightText(attr) == << <<" ", attr>>, <<" ">> >>

SpotlightSoups ==
    {[spotlight |-> None]} \cup
    {[spotlight |-> Some([a \in present |-> SpotlightText(a)])] : present \in SUBSET ATTRS}

\* ---- product pages: the specs-list container ----

MaxSpecItems == 3

SpecThs == {None, Some(T("Network")), Some(<< <<" ", "Display">>, <<" ">> >>), Some(T(" "))}

SpecTds ==
    { <<T("Technology")>>,
      <<T("Technology"), << <<"GSM">>, <<" ", "LTE">> >> >>,
      <<T("Technology"), T("5G")>>,
      << << <<"2G bands", " ">> >>, T("GSM 850") >> }

\* the markup of a specs-list, flat: rows, and the breaks between tables
SpecItems ==
    [brk : {FALSE}, th : SpecThs, tds : SpecTds] \cup {[brk |-> TRUE, th |-> None, tds |-> <<>>]}

\* the tables of a flat markup: acc is the tables read so far, the last one open
RECURSIVE SpecTables(_, _)
SpecTables(acc, items) ==
    IF items = <<>> THEN acc
    ELSE IF Head(items).brk THEN SpecTables(Append(acc, <<>>), Tail(items))
    ELSE SpecTables(
           [acc EXCEPT ![Len(acc)] =
               Append(@, [th |-> Head(items).th, tds |-> Head(items).tds])],
           Tail(items))

SpecsSoups ==
    {[specs_list |-> None]} \cup
    {[specs_list |-> Some(SpecTables(<< <<>> >>, items))] :
        items \in SeqsUpTo(SpecItems, MaxSpecItems)}

\* ---- price pages ----

MaxPriceItems == 5

USA == Some(<< <<" ", "USA">> >>)

PriceHeads ==
    { [caption |-> USA,  thead |-> Some(<<<<>>, T("64GB")>>), tbody |-> TRUE],
      [caption |-> None, thead |-> Some(<< <<>> >>),            tbody |-> TRUE],
      [caption |-> USA,  thead |-> None,                       tbody |-> TRUE],
      [caption |-> None, thead |-> Some(<<<<>>, T("64GB")>>), tbody |-> FALSE] }

Amazon == Some([alt |-> Some(<<" ", "Amazon">>)])

NoAlt == Some([alt |-> None])

PriceRows ==
    { [img |-> None,   cells |-> <<T("$699"), T("$799")>>],
      [img |-> NoAlt,  cells |-> <<T("$649")>>],
      [img |-> Amazon, cells |-> << << <<"$749">>, <<" ">> >>, T("$699") >>],
      [img |-> Amazon, cells |-> <<T("$799")>>],
      [img |-> Amazon, cells |-> <<>>] }

\* the markup of a price page, flat: table openings and rows
PriceItems ==
    {[row |-> FALSE, head |-> h, body |-> [img |-> None, cells |-> <<>>]] : h \in PriceHeads}
    \cup
    {[row |-> TRUE, head |-> [caption |-> None, thead |-> None, tbody |-> FALSE], body |-> r] :
        r \in PriceRows}

\* the tables of a flat markup; a row outside a <tbody> belongs to no table
RECURSIVE PriceTables(_, _)
PriceTables(acc, items) ==
    IF items = <<>> THEN acc
    ELSE LET it == Head(items) IN
         IF ~it.row
         THEN PriceTables(
                Append(acc, [caption |-> it.head.caption, thead |-> it.head.thead,
                             tbody |-> IF it.head.tbody THEN Some(<<>>) ELSE None]),
                Tail(items))
         ELSE IF acc = <<>> \/ acc[Len(acc)].tbody = None
         THEN PriceTables(acc, Tail(items))
         ELSE PriceTables(
                [acc EXCEPT ![Len(acc)].tbody = Some(Append(Val(@), it.body))],
                Tail(items))

\* what fetch_html can return for a price page: "" or markup
PriceMarkups ==
    {NoMarkup} \cup
    {Some(PriceTables(<<>>, items)) : items \in SeqsUpTo(PriceItems, MaxPriceItems)}

\* ============================================================= state ====

VARIABLES
    pc,               \* where the program is
    LIMIT_PRODUCTS,   \* the configured limit
    soup,             \* the parsed product page
    key_specs, full_specs, flat_full_specs,
    price_html,       \* the markup handed to extract_price_info
    platforms, prices,\* extract_price_info's lists
    price_data,
    listing_html, product_urls, idx, price_url, all_data,
    gets,             \* the fetch_html calls made: [site, url, ok], ok when
                      \* fetch_html returned markup and not ""
    posts,            \* the send_to_zapier calls made: [data, sent], sent
                      \* when the sink answered 200
    xlsx              \* the output file: None, or Some(the rows written)

vars == <<pc, LIMIT_PRODUCTS, soup, key_specs, full_specs, flat_full_specs, price_html,
          platforms, prices, price_data, listing_html, product_urls, idx, price_url, all_data,
          gets, posts, xlsx>>

\* the variables main() owns, before main() runs
MainIdle ==
    /\ LIMIT_PRODUCTS = 0
    /\ listing_html = NoMarkup /\ product_urls = <<>> /\ idx = 0 /\ price_url = <<>> /\ all_data = <<>>
    /\ gets = <<>> /\ posts = <<>> /\ xlsx = None

MainVars == <<LIMIT_PRODUCTS, listing_html, product_urls, idx, price_url, all_data, gets, posts, xlsx>>

\* =========================================== extract_key_specs alone ====

InitKeySpecs ==
    /\ pc = "extract_key_specs"
    /\ soup \in SpotlightSoups
    /\ key_specs = <<>> /\ full_specs = <<>> /\ flat_full_specs = <<>>
    /\ price_html = NoMarkup /\ platforms = <<>> /\ prices = <<>> /\ price_data = <<>>
    /\ MainIdle

CallKeySpecs ==
    /\ pc = "extract_key_specs"
    /\ key_specs' = extract_key_specs(soup)
    /\ pc' = "return"
    /\ UNCHANGED <<soup, full_specs, flat_full_specs, price_html, platforms, prices,
                   price_data, MainVars>>

SpecKeySpecs == InitKeySpecs /\ [][CallKeySpecs]_vars

\* ===== extract_full_specs, then combine_full_specs_sectionwise, alone ====

InitFullSpecs ==
    /\ pc = "extract_full_specs"
    /\ soup \in SpecsSoups
    /\ key_specs = <<>> /\ full_specs = <<>> /\ flat_full_specs = <<>>
    /\ price_html = NoMarkup /\ platforms = <<>> /\ prices = <<>> /\ price_data = <<>>
    /\ MainIdle

CallFullSpecs ==
    /\ pc = "extract_full_specs"
    /\ full_specs' = extract_full_specs(soup)
    /\ pc' = "combine_full_specs_sectionwise"
    /\ UNCHANGED <<soup, key_specs, flat_full_specs, price_html, platforms, prices,
                   price_data, MainVars>>

CallCombine ==
    /\ pc = "combine_full_specs_sectionwise"
    /\ flat_full_specs' = combine_full_specs_sectionwise(full_specs)
    /\ pc' = "return"
    /\ UNCHANGED <<soup, key_specs, full_specs, price_html, platforms, prices,
                   price_data, MainVars>>

NextFullSpecs == CallFullSpecs \/ CallCombine

SpecFullSpecs == InitFullSpecs /\ [][NextFullSpecs]_vars

\* ========================================== extract_price_info alone ====

InitPriceInfo ==
    /\ pc = "extract_price_info"
    /\ price_html \in PriceMarkups
    /\ soup = <<>>
    /\ key_specs = <<>> /\ full_specs = <<>> /\ flat_full_specs = <<>>
    /\ platforms = <<>> /\ prices = <<>> /\ price_data = <<>>
    /\ MainIdle

CallPriceInfo ==
    /\ pc = "extract_price_info"
    /\ platforms' = price_lists(price_html).platforms
    /\ prices' = price_lists(price_html).prices
    /\ price_data' = extract_price_info(price_html)
    /\ pc' = "return"
    /\ UNCHANGED <<soup, key_specs, full_specs, flat_full_specs, price_html, MainVars>>

SpecPriceInfo == InitPriceInfo /\ [][CallPriceInfo]_vars

\* ============================================================== main ====

MaxAnchors == 3

MaxLimit == 3

\* the listing pages: the href of each anchor of the review list, None for an
\* anchor without one; the same href may occur twice
ListingPages ==
    SeqsUpTo({None, Some(<<"phone_a.php">>), Some(<<"phone_b.php">>)}, MaxAnchors)

Spotlight == Some([a \in {"released-hl", "os-hl"} |-> SpotlightText(a)])

SpecsList ==
    Some(<< << [th |-> Some(T("Network")),
                tds |-> <<T("Technology"), << <<"GSM">>, <<" ", "LTE">> >> >>],
               [th |-> None, tds |-> << << <<"2G bands", " ">> >>, T("GSM 850") >>] >> >>)

\* the product pages: with and without a price link, and one with nothing in it
ProductPages ==
    { [h1 |-> Some(<< <<" ", "Phone X">> >>), spotlight |-> Spotlight,
       specs_list |-> SpecsList, price_link |-> Some(<<"phone_x-price.php">>)],
      [h1 |-> Some(<< <<" ", "Phone X">> >>), spotlight |-> Spotlight,
       specs_list |-> SpecsList, price_link |-> None],
      [h1 |-> None, spotlight |-> None, specs_list |-> None, price_link |-> None] }

\* the price pages: one pricing table of one row
PricePages ==
    { << [caption |-> USA, thead |-> Some(<<<<>>, T("64GB")>>),
          tbody |-> Some(<<[img |-> Amazon, cells |-> <<T("$699"), T("$799")>>]>>)] >> }

\* what requests.post does: raise, or answer with a status code
PostResponses ==
    {[raises |-> TRUE, status_code |-> 0],
     [raises |-> FALSE, status_code |-> 200],
     [raises |-> FALSE, status_code |-> 500]}

\* soup.find("h1").text.strip() if soup.find("h1") else "Unknown"
phone_name(page) == IF page.h1 # None THEN strip(text(Val(page.h1))) ELSE <<"Unknown">>

\* the dict literal combined
combined(page, product_url) ==
    DictSet(
      DictSet(
        Update(Update(Update(<<[k |-> <<"Phone Name">>, v |-> phone_name(page)]>>,
                             key_specs),
                      flat_full_specs),
               price_data),
        <<"Product URL">>, product_url),
      <<"Price Page URL">>, IF price_url # <<>> THEN price_url ELSE <<"N/A">>)

Init ==
    /\ pc = "main"
    /\ LIMIT_PRODUCTS \in 0..MaxLimit
    /\ soup = <<>>
    /\ key_specs = <<>> /\ full_specs = <<>> /\ flat_full_specs = <<>>
    /\ price_html = NoMarkup /\ platforms = <<>> /\ prices = <<>> /\ price_data = <<>>
    /\ listing_html = NoMarkup /\ product_urls = <<>> /\ idx = 0
    /\ price_url = <<>> /\ all_data = <<>>
    /\ gets = <<>> /\ posts = <<>> /\ xlsx = None

ExtractorVars == <<platforms, prices>>

\* mutant of FetchListing: no return on "", the loop runs over no URLs
FetchListing_no_return ==
    /\ pc = "main"
    /\ \E response \in Responses(ListingPages) :
         LET html == fetch_html(response) IN
         /\ gets' = Append(gets, [site |-> "listing", url |-> LISTING_URL,
                                  ok |-> html # NoMarkup])
         /\ listing_html' = html
         /\ product_urls' = IF html = NoMarkup THEN <<>>
                            ELSE slice_to(get_product_urls(html), LIMIT_PRODUCTS)
         /\ pc' = "for"
    /\ UNCHANGED <<LIMIT_PRODUCTS, soup, key_specs, full_specs, flat_full_specs, price_html,
                   price_data, idx, price_url, all_data, posts, xlsx, ExtractorVars>>

\* lines 151-163: fetch the listing; return if it is "", else parse and cut it
FetchListing ==
    /\ pc = "main"
    /\ \E response \in Responses(ListingPages) :
         LET html == fetch_html(response) IN
         /\ gets' = Append(gets, [site |-> "listing", url |-> LISTING_URL,
                                  ok |-> html # NoMarkup])
         /\ listing_html' = html
         /\ IF html = NoMarkup
            THEN pc' = "exit" /\ UNCHANGED product_urls
            ELSE /\ product_urls' = slice_to(get_product_urls(html), LIMIT_PRODUCTS)
                 /\ pc' = "for"
    /\ UNCHANGED <<LIMIT_PRODUCTS, soup, key_specs, full_specs, flat_full_specs, price_html,
                   price_data, idx, price_url, all_data, posts, xlsx, ExtractorVars>>

\* lines 165-179: the next URL of the loop; continue if its page is "", else
\* parse the page and locate the price page
FetchProduct ==
    /\ pc = "for"
    /\ idx < Len(product_urls)
    /\ idx' = idx + 1
    /\ \E response \in Responses(ProductPages) :
         LET html == fetch_html(response) IN
         /\ gets' = Append(gets, [site |-> "product", url |-> product_urls[idx + 1],
                                  ok |-> html # NoMarkup])
         /\ IF html = NoMarkup
            THEN pc' = "for"
                 /\ UNCHANGED <<soup, key_specs, full_specs, flat_full_specs, price_url,
                                price_data>>
            ELSE /\ soup' = Val(html)
                 /\ key_specs' = extract_key_specs(Val(html))
                 /\ full_specs' = extract_full_specs(Val(html))
                 /\ flat_full_specs' =
                        combine_full_specs_sectionwise(extract_full_specs(Val(html)))
                 /\ price_url' = get_price_page_url(Val(html))
                 /\ price_data' = <<>>
                 /\ pc' = "if price_url"
    /\ UNCHANGED <<LIMIT_PRODUCTS, price_html, listing_html, product_urls, all_data, posts,
                   xlsx, ExtractorVars>>

\* lines 180-183: fetch the price page and extract from whatever came back
FetchPrice ==
    /\ pc = "if price_url"
    /\ price_url # <<>>
    /\ \E response \in Responses(PricePages) :
         LET html == fetch_html(response) IN
         /\ gets' = Append(gets, [site |-> "price", url |-> price_url,
                                  ok |-> html # NoMarkup])
         /\ price_html' = html
         /\ price_data' = extract_price_info(html)
    /\ pc' = "combined"
    /\ UNCHANGED <<LIMIT_PRODUCTS, soup, key_specs, full_specs, flat_full_specs,
                   listing_html, product_urls, idx, price_url, all_data, posts, xlsx,
                   ExtractorVars>>

\* lines 184-185: no price link, price_data stays {}
NoPriceLink ==
    /\ pc = "if price_url"
    /\ price_url = <<>>
    /\ pc' = "combined"
    /\ UNCHANGED <<LIMIT_PRODUCTS, soup, key_specs, full_specs, flat_full_specs, price_html,
                   price_data, listing_html, product_urls, idx, price_url, all_data, gets,
                   posts, xlsx, ExtractorVars>>

\* lines 187-196: build the record and append it
Assemble ==
    /\ pc = "combined"
    /\ all_data' = Append(all_data, combined(soup, product_urls[idx]))
    /\ pc' = "send_to_zapier"
    /\ UNCHANGED <<LIMIT_PRODUCTS, soup, key_specs, full_specs, flat_full_specs, price_html,
                   price_data, listing_html, product_urls, idx, price_url, gets, posts,
                   xlsx, ExtractorVars>>

\* mutant of send_to_zapier: no try/except, an error of the post ends the run
send_to_zapier_uncaught ==
    /\ pc = "send_to_zapier"
    /\ \E response \in PostResponses :
         /\ posts' = Append(posts, [data |-> all_data[Len(all_data)],
                                    sent |-> ~response.raises /\ response.status_code = 200])
         /\ pc' = IF response.raises THEN "exit" ELSE "for"
    /\ soup' = <<>> /\ key_specs' = <<>> /\ full_specs' = <<>> /\ flat_full_specs' = <<>>
    /\ price_html' = NoMarkup /\ price_data' = <<>> /\ price_url' = <<>>
    /\ UNCHANGED <<LIMIT_PRODUCTS, listing_html, product_urls, idx, all_data, gets, xlsx,
                   ExtractorVars>>

\* lines 9-18 and 199-201: one post of the record just appended; whatever
\* happens is printed and the loop goes on. The locals of the iteration are
\* dead from here on and are dropped.
send_to_zapier ==
    /\ pc = "send_to_zapier"
    /\ \E response \in PostResponses :
         posts' = Append(posts, [data |-> all_data[Len(all_data)],
                                 sent |-> ~response.raises /\ response.status_code = 200])
    /\ pc' = "for"
    /\ soup' = <<>> /\ key_specs' = <<>> /\ full_specs' = <<>> /\ flat_full_specs' = <<>>
    /\ price_html' = NoMarkup /\ price_data' = <<>> /\ price_url' = <<>>
    /\ UNCHANGED <<LIMIT_PRODUCTS, listing_html, product_urls, idx, all_data, gets, xlsx,
                   ExtractorVars>>

\* lines 203-210: the loop is over, write the rows
Export ==
    /\ pc = "for"
    /\ idx = Len(product_urls)
    /\ xlsx' = Some(all_data)
    /\ pc' = "exit"
    /\ UNCHANGED <<LIMIT_PRODUCTS, soup, key_specs, full_specs, flat_full_specs, price_html,
                   price_data, listing_html, product_urls, idx, price_url, all_data, gets,
                   posts, ExtractorVars>>

Next ==
    \/ FetchListing
    \/ FetchProduct
    \/ FetchPrice
    \/ NoPriceLink
    \/ Assemble
    \/ send_to_zapier
    \/ Export

Spec == Init /\ [][Next]_vars

\* ============================================================ claims ====

\* ---- C3 ----

WHITELIST == {<<KEY_SPECS[i][1]>> : i \in DOMAIN KEY_SPECS}

\* whether the page has the element carrying data-spec = attr
HasDataSpec(page, attr) ==
    page.spotlight # None /\ attr \in DOMAIN Val(page.spotlight)

\* C3: for every product page, the spotlight container missing included, the
\* mapping extract_key_specs returns has exactly the 12 whitelisted keys, and
\* the empty string for every field whose element is absent.
C3_AlwaysWhitelist ==
    pc = "return" =>
        /\ KeySet(key_specs) = WHITELIST
        /\ \A i \in DOMAIN KEY_SPECS :
              ~HasDataSpec(soup, KEY_SPECS[i][2]) => Get(key_specs, <<KEY_SPECS[i][1]>>) = <<>>

\* ---- C10 ----

\* "label: value"
Entry(item) == item.k \o <<": ">> \o item.v

\* the number of tokens before entry i in the rendering of items
RECURSIVE EntryOffset(_, _)
EntryOffset(items, i) ==
    IF i = 1 THEN 0 ELSE EntryOffset(items, i - 1) + Len(Entry(items[i - 1])) + 1

\* out is the entries of items in order, " | " between neighbours and nowhere else
IsRendering(items, out) ==
    /\ items = <<>> => out = <<>>
    /\ items # <<>> =>
          Len(out) = EntryOffset(items, Len(items)) + Len(Entry(items[Len(items)]))
    /\ \A i \in DOMAIN items :
          LET from == EntryOffset(items, i)
              n    == Len(Entry(items[i]))
          IN  /\ Len(out) >= from + n
              /\ SubSeq(out, from + 1, from + n) = Entry(items[i])
              /\ i < Len(items) => Len(out) > from + n /\ out[from + n + 1] = " | "

\* C10: the flattener's output has the section names of its input, none
\* renamed, added or dropped and in the same order; each section's value is
\* its pairs as "label: value" joined by " | " in entry order; a section with
\* no pairs maps to the empty string.
C10_FlattenerRenders ==
    pc = "return" =>
        /\ Len(flat_full_specs) = Len(full_specs)
        /\ \A i \in DOMAIN full_specs :
              /\ flat_full_specs[i].k = full_specs[i].k
              /\ IsRendering(full_specs[i].v, flat_full_specs[i].v)
              /\ full_specs[i].v = <<>> => flat_full_specs[i].v = <<>>

C10_Witness ==
    /\ pc = "return"
    /\ \E i \in DOMAIN full_specs : Len(full_specs[i].v) = 2
    /\ \E i \in DOMAIN full_specs : full_specs[i].v = <<>> /\ flat_full_specs[i].v = <<>>

\* ---- C8 ----

DocTables == IF soup.specs_list = None THEN <<>> ELSE Val(soup.specs_list)

\* the header text of row r of table t, when the row has a <th>
IsHeader(t, r, h) ==
    DocTables[t][r].th # None /\ get_text(Val(DocTables[t][r].th), <<>>) = h

\* the header row in force at row r of table t: the last one at or before r, 0 if none
HeaderRowAt(t, r) ==
    LET hs == {q \in 1..r : DocTables[t][q].th # None}
    IN  IF hs = {} THEN 0 ELSE CHOOSE q \in hs : \A q2 \in hs : q2 <= q

\* row r of table t is a two-cell row under a header row of text h
IsPairUnder(t, r, h) ==
    /\ Len(DocTables[t][r].tds) = 2
    /\ HeaderRowAt(t, r) # 0
    /\ IsHeader(t, HeaderRowAt(t, r), h)

PairLabel(t, r) == get_text(DocTables[t][r].tds[1], <<>>)

PairValue(t, r) == get_text(DocTables[t][r].tds[2], <<" ">>)

HeaderTables(h) == {t \in DOMAIN DocTables : \E r \in DOMAIN DocTables[t] : IsHeader(t, r, h)}

\* the pairs table t contributes under header h: <<r, label, value>>
Contributed(t, h) ==
    {<<r, PairLabel(t, r), PairValue(t, r)>> : r \in {q \in DOMAIN DocTables[t] : IsPairUnder(t, q, h)}}

\* the header texts that head rows of two different tables
SharedHeaders ==
    {h \in KeySet(full_specs) : h # <<>> /\ Cardinality(HeaderTables(h)) >= 2}

\* C8 as stated: when two tables have header rows with the same text, the
\* section of that name holds the pairs both tables contribute under it, and
\* for a label contributed more than once the last-written value.
C8_SameHeaderMerged ==
    pc = "combine_full_specs_sectionwise" =>
        \A h \in SharedHeaders : \A t \in HeaderTables(h) : \A c \in Contributed(t, h) :
            /\ Has(Get(full_specs, h), c[2])
            /\ (\A t2 \in HeaderTables(h) : \A c2 \in Contributed(t2, h) :
                    c2[2] = c[2] => (t2 < t \/ (t2 = t /\ c2[1] <= c[1])))
                 => Get(Get(full_specs, h), c[2]) = c[3]

\* the last header row of text h in the page: <<t, r>>
LastHeader(h) ==
    LET t == CHOOSE t1 \in HeaderTables(h) : \A t2 \in HeaderTables(h) : t2 <= t1
        rs == {q \in DOMAIN DocTables[t] : IsHeader(t, q, h)}
    IN  <<t, CHOOSE r \in rs : \A r2 \in rs : r2 <= r>>

\* the pairs that follow the last header row of text h, up to the next header
\* row or the end of its table
Surviving(h) ==
    LET t == LastHeader(h)[1]
    IN  {c \in Contributed(t, h) : HeaderRowAt(t, c[1]) = LastHeader(h)[2]}

\* C8 as amended: when two tables have header rows with the same text, the
\* later header row replaces the section, nothing is merged: the section holds
\* exactly the pairs that follow the last header row of that text, and for a
\* label that occurs more than once among them the last-written value.
C8_LastHeaderReplaces ==
    pc = "combine_full_specs_sectionwise" =>
        \A h \in SharedHeaders :
            /\ KeySet(Get(full_specs, h)) = {c[2] : c \in Surviving(h)}
            /\ \A c \in Surviving(h) :
                  (\A c2 \in Surviving(h) : c2[2] = c[2] => c2[1] <= c[1])
                      => Get(Get(full_specs, h), c[2]) = c[3]

\* two tables share a header, and a label of the earlier one is gone
C8_Witness ==
    /\ pc = "combine_full_specs_sectionwise"
    /\ \E h \in SharedHeaders : \E t \in HeaderTables(h) : \E c \in Contributed(t, h) :
          /\ t # LastHeader(h)[1]
          /\ ~Has(Get(full_specs, h), c[2])
          /\ Get(full_specs, h) # <<>>

\* ---- C4, C9 ----

PricingTables == select_pricing(price_html)

\* the cells of the tables that have both a <thead> and a <tbody>: <<t, r, c>>
Cells ==
    UNION {UNION {{<<t, r, c>> : c \in DOMAIN Val(PricingTables[t].tbody)[r].cells} :
                    r \in DOMAIN Val(PricingTables[t].tbody)} :
             t \in {u \in DOMAIN PricingTables :
                       PricingTables[u].thead # None /\ PricingTables[u].tbody # None}}

\* table order, then row order, then cell order
Before(p, q) ==
    \/ p[1] < q[1]
    \/ p[1] = q[1] /\ p[2] < q[2]
    \/ p[1] = q[1] /\ p[2] = q[2] /\ p[3] < q[3]

Rank(p) == Cardinality({q \in Cells : Before(q, p)}) + 1

RowAt(p) == Val(PricingTables[p[1]].tbody)[p[2]]

LocationAt(p) ==
    IF PricingTables[p[1]].caption # None
    THEN get_text(Val(PricingTables[p[1]].caption), <<>>)
    ELSE <<"Unknown Location">>

\* the texts of the header cells after the first
VariantsAt(p) ==
    LET ths == Val(PricingTables[p[1]].thead)
    IN  [i \in 1..(Len(ths) - 1) |-> get_text(ths[i + 1], <<>>)]

\* the label the code builds from cell p
LabelAt(p) ==
    LocationAt(p) \o <<" - ">> \o price_variant(VariantsAt(p), p[3] - 1)
        \o <<" - ">> \o price_platform_name(RowAt(p))

\* C4: the extractor emits as many labels as prices, one of each per cell of
\* the tables that have a header and a body section, entry i of both built
\* from the same cell, in table, then row, then cell order; the other tables
\* contribute nothing.
C4_Aligned ==
    pc = "return" =>
        /\ Len(platforms) = Len(prices)
        /\ Len(platforms) = Cardinality(Cells)
        /\ \A p \in Cells :
              /\ platforms[Rank(p)] = LabelAt(p)
              /\ prices[Rank(p)] = get_text(RowAt(p).cells[p[3]], <<>>)

\* two tables emit, one of them from more than one cell, and a table lacking
\* a section is passed over
C4_Witness ==
    /\ pc = "return"
    /\ \E p, q \in Cells : p[1] # q[1]
    /\ \E p, q \in Cells : p[1] = q[1] /\ p # q
    /\ \E t \in DOMAIN PricingTables :
          PricingTables[t].thead = None \/ PricingTables[t].tbody = None
    /\ Len(prices) = Cardinality(Cells)

\* the platform component as C9 states it
ClaimedPlatform(row) ==
    IF row.img = None \/ Val(row.img).alt = None
    THEN <<"Unknown Platform">>
    ELSE strip(Val(Val(row.img).alt))

\* the variant component as C9 states it
ClaimedVariant(p) ==
    IF p[3] <= Len(VariantsAt(p)) THEN VariantsAt(p)[p[3]] ELSE <<"Variant ", ToString(p[3])>>

\* C9: in every label the platform is the image's alt when present and
\* "Unknown Platform" when the row has no image or the image has no alt; the
\* variant is the header variant at the cell's index, or "Variant i+1" past
\* the header's variants.
C9_PlatformAndVariant ==
    pc = "return" =>
        \A p \in Cells :
            Rank(p) <= Len(platforms) =>
                platforms[Rank(p)] =
                    LocationAt(p) \o <<" - ">> \o ClaimedVariant(p)
                        \o <<" - ">> \o ClaimedPlatform(RowAt(p))

\* ---- C1, C2, C5, C6, C7: main ----

Min(a, b) == IF a < b THEN a ELSE b

ProductGets == SelectSeq(gets, LAMBDA g : g.site = "product")

OkProductGets == SelectSeq(gets, LAMBDA g : g.site = "product" /\ g.ok)

UrlsOf(log) == [i \in DOMAIN log |-> log[i].url]

RecordUrls == [i \in DOMAIN all_data |-> Get(all_data[i], <<"Product URL">>)]

ListingOk == gets # <<>> /\ gets[1].ok

\* C1: the product pages fetched are the first min(N, number of URLs) URLs
\* of the listing, in listing order; a URL whose fetch fails (fetch_html
\* returns "") gets no record and a URL whose fetch succeeds gets exactly one,
\* so the records are the successfully fetched URLs in listing order.
C1_FirstNInOrder ==
    (ListingOk /\ pc \in {"for", "exit"}) =>
        LET urls == get_product_urls(listing_html)
            n    == Min(LIMIT_PRODUCTS, Len(urls))
        IN  /\ idx <= n
            /\ pc = "exit" => idx = n
            /\ UrlsOf(ProductGets) = SubSeq(urls, 1, idx)
            /\ RecordUrls = UrlsOf(OkProductGets)

\* three URLs, the first two the same, a limit of two, one fetch failing
C1_Witness ==
    /\ pc = "exit" /\ ListingOk
    /\ Len(get_product_urls(listing_html)) = 3
    /\ get_product_urls(listing_html)[1] = get_product_urls(listing_html)[2]
    /\ LIMIT_PRODUCTS = 2
    /\ Len(ProductGets) = 2 /\ ~ProductGets[1].ok /\ ProductGets[2].ok
    /\ Len(all_data) = 1

\* C2: every record of a product without a price-page link has Price Page
\* URL = "N/A" and has Price Platforms and Price Values, both "".
C2_NoLinkFieldsPresent ==
    \A k \in DOMAIN all_data :
        Get(all_data[k], <<"Price Page URL">>) = <<"N/A">> =>
            /\ Has(all_data[k], <<"Price Platforms">>)
            /\ Has(all_data[k], <<"Price Values">>)
            /\ Get(all_data[k], <<"Price Platforms">>) = <<>>
            /\ Get(all_data[k], <<"Price Values">>) = <<>>

\* C5: if the listing fetch fails the run is over at once: nothing else is
\* fetched, no record is assembled or delivered, no file is written.
C5_ListingFailureAborts ==
    (gets # <<>> /\ ~gets[1].ok) =>
        /\ pc = "exit"
        /\ ~ENABLED Next
        /\ Len(gets) = 1
        /\ all_data = <<>>
        /\ posts = <<>>
        /\ xlsx = None

C5_Witness == pc = "exit" /\ Len(gets) = 1 /\ ~gets[1].ok /\ xlsx = None

\* the fetches of product pages that returned markup
OkIdx == {j \in DOMAIN gets : gets[j].site = "product" /\ gets[j].ok}

\* the position in all_data of the record of the product fetched at gets[j]
RecordOf(j) == Cardinality({i \in OkIdx : i <= j})

\* the product fetched at gets[j] had a price link and the price fetch failed
PriceFailed(j) ==
    j + 1 \in DOMAIN gets /\ gets[j + 1].site = "price" /\ ~gets[j + 1].ok

\* the run went through all of the loop and wrote the file
RanToEnd ==
    /\ idx = Len(product_urls)
    /\ Len(ProductGets) = Len(product_urls)
    /\ xlsx = Some(all_data)

\* C6: a product whose page was fetched and whose price-page fetch failed is
\* not skipped and the run is not aborted: its record is appended with Price
\* Platforms and Price Values present and "" and Price Page URL the located
\* URL, it is delivered, and the loop goes on to the end.
C6_PriceFailureKeepsRecord ==
    \A j \in OkIdx :
        PriceFailed(j) =>
            /\ (pc # "combined" \/ j + 1 < Len(gets)) =>
                  /\ RecordOf(j) <= Len(all_data)
                  /\ LET rec == all_data[RecordOf(j)]
                     IN  /\ Get(rec, <<"Product URL">>) = gets[j].url
                         /\ Has(rec, <<"Price Platforms">>)
                         /\ Get(rec, <<"Price Platforms">>) = <<>>
                         /\ Has(rec, <<"Price Values">>)
                         /\ Get(rec, <<"Price Values">>) = <<>>
                         /\ Get(rec, <<"Price Page URL">>) = gets[j + 1].url
                         /\ gets[j + 1].url # <<>>
            /\ (pc \notin {"combined", "send_to_zapier"} \/ j + 1 < Len(gets)) =>
                  /\ RecordOf(j) <= Len(posts)
                  /\ posts[RecordOf(j)].data = all_data[RecordOf(j)]
            /\ pc = "exit" => RanToEnd

\* a price fetch failed, a later product was fetched, and the run ended
C6_Witness ==
    /\ pc = "exit"
    /\ \E j \in OkIdx : PriceFailed(j) /\ j + 1 < Len(gets)
    /\ xlsx = Some(all_data)

\* C7: each assembled record is posted once and never again, whatever the
\* sink answers; the record appended before the post stays in all_data; the
\* loop goes on to the remaining URLs and the export writes every record.
C7_DeliveryFailureNonFatal ==
    /\ \A k \in DOMAIN posts : k <= Len(all_data) /\ posts[k].data = all_data[k]
    /\ pc = "send_to_zapier" => Len(posts) + 1 = Len(all_data)
    /\ pc \in {"for", "exit"} => Len(posts) = Len(all_data)
    /\ Len(all_data) = Cardinality(OkIdx) - (IF pc \in {"if price_url", "combined"} THEN 1 ELSE 0)
    /\ (pc = "exit" /\ ListingOk) => RanToEnd

\* a delivery failed, a later record was delivered, and the file has them all
C7_Witness ==
    /\ pc = "exit"
    /\ \E k \in DOMAIN posts : ~posts[k].sent /\ k < Len(posts)
    /\ xlsx = Some(all_data)

====
